---- MODULE Spec2Model ----
(***************************************************************************)
(* Stationary Management System (src/Stationary.py).                       *)
(*                                                                         *)
(* One SQLite database (users, items, transactions) behind one module-     *)
(* level connection and cursor, driven by the Streamlit page handlers.     *)
(* `conn` is what the shared connection sees (committed rows plus the      *)
(* pending implicit transaction), `disk` is what conn.commit() has made    *)
(* durable.                                                                *)
(*                                                                         *)
(*   Spec      the page handlers of one session, each run to completion    *)
(*   SpecStmt  update_stock run statement by statement by two sessions     *)
(*             over the shared connection, with failing statements,        *)
(*             another committing operation (add_user) and process crash   *)
(***************************************************************************)
EXTENDS Integers, Sequences, FiniteSets, TLC

VARIABLES
    conn,        \* the shared connection's view of stationary.db
    disk,        \* the committed content of stationary.db
    today,       \* datetime.date.today()
    session,     \* st.session_state: logged_in, user
    output,      \* what the last handler run put on the page
    calls,       \* history: arguments of the update_stock calls that returned
    created,     \* history: arguments of add_item, by the id it returned
    registered,  \* history: password of the first add_user that returned True
    pc,          \* SpecStmt: each session's position inside update_stock
    arg          \* SpecStmt: each session's update_stock arguments

vars == <<conn, disk, today, session, output, calls, created, registered, pc, arg>>

----------------------------------------------------------------------------
\* Bounds of the model.

MaxItems == 1
MaxCalls == 2
MaxDays == 1

\* Inputs the handlers are driven with.
Usernames == {"alice", "bob", "carol"}
Passwords == {"pw1", "pw2", ""}
Names == {"Pen", ""}
InitialStocks == {0, 14}
Thresholds == {10}
TypedQuantities == {0, 3, 4}
Actions == {"Add", "Remove"}
ScanIds == 1..(MaxItems + 1)
QueryMonths == {1, 12}
QueryYears == {2025, 2026}
StartDate == [year |-> 2025, month |-> 12, day |-> 31]
Sessions == {"s1", "s2"}

----------------------------------------------------------------------------
\* Text: strings the code formats and SQLite compares, as sequences of characters.

Digit(n) == <<"0", "1", "2", "3", "4", "5", "6", "7", "8", "9">>[n + 1]

RECURSIVE IntToStr(_)
\* str(n) for n >= 0
IntToStr(n) == IF n < 10 THEN <<Digit(n)>> ELSE IntToStr(n \div 10) \o <<Digit(n % 10)>>

RECURSIVE ZeroPad(_, _)
\* the 0w width of a format spec: pad on the left, never truncate
ZeroPad(s, w) == IF Len(s) < w THEN ZeroPad(<<"0">> \o s, w) ELSE s

\* f"{month}": the width dropped
FormatMonthUnpadded(month) == IntToStr(month)

\* f"{month:02d}"
FormatMonth(month) == ZeroPad(IntToStr(month), 2)

\* str(year)
FormatYear(year) == IntToStr(year)

\* sqlite3's default adapter for datetime.date: date.isoformat(), YYYY-MM-DD
isoformat(d) ==
    ZeroPad(IntToStr(d.year), 4) \o <<"-">> \o ZeroPad(IntToStr(d.month), 2)
        \o <<"-">> \o ZeroPad(IntToStr(d.day), 2)

\* strftime('%m', trans_date) and strftime('%Y', trans_date) on an ISO date
strftime_m(s) == SubSeq(s, 6, 7)
strftime_Y(s) == SubSeq(s, 1, 4)

IsLeap(y) == (y % 4 = 0 /\ y % 100 # 0) \/ y % 400 = 0

DaysInMonth(y, m) ==
    IF m = 2 THEN (IF IsLeap(y) THEN 29 ELSE 28)
    ELSE IF m \in {4, 6, 9, 11} THEN 30 ELSE 31

\* the calendar day after d
Tomorrow(d) ==
    IF d.day < DaysInMonth(d.year, d.month) THEN [d EXCEPT !.day = d.day + 1]
    ELSE IF d.month < 12 THEN [year |-> d.year, month |-> d.month + 1, day |-> 1]
    ELSE [year |-> d.year + 1, month |-> 1, day |-> 1]

RECURSIVE DaysSince(_, _)
DaysSince(from, d) == IF from = d THEN 0 ELSE 1 + DaysSince(Tomorrow(from), d)

abs(n) == IF n < 0 THEN -n ELSE n

----------------------------------------------------------------------------
\* The database.

\* the three empty tables sync_db_from_github creates
EmptyDB ==
    [users |-> {}, items |-> {}, transactions |-> {},
     seq_items |-> 0, seq_transactions |-> 0]

\* hashlib.sha256(password.encode()).hexdigest(), first eight hex digits
hash_password(password) ==
    CASE password = "pw1" -> "c592df4a"
      [] password = "pw2" -> "93915a0a"
      [] OTHER -> "e3b0c442"

\* username TEXT without the PRIMARY KEY
UsernameNeverTaken(db, username) == FALSE

\* username TEXT PRIMARY KEY: the INSERT raises sqlite3.IntegrityError
UsernameTaken(db, username) == \E r \in db.users : r.username = username

\* INSERT INTO users (username, password_hash) VALUES (?, ?)
InsertUser(db, username, password_hash) ==
    [db EXCEPT !.users = @ \cup {[username |-> username, password_hash |-> password_hash]}]

\* SELECT * FROM users WHERE username = ? AND password_hash = ?; fetchone() is not None
verify_user(db, username, password) ==
    \E r \in db.users :
        r.username = username /\ r.password_hash = hash_password(password)

\* INSERT INTO items (...) VALUES (...); id INTEGER PRIMARY KEY AUTOINCREMENT
InsertItem(db, name, initial_stock, low_stock_threshold) ==
    [db EXCEPT
        !.items = @ \cup {[id |-> db.seq_items + 1, name |-> name,
                           stock |-> initial_stock,
                           low_stock_threshold |-> low_stock_threshold]},
        !.seq_items = @ + 1]

\* UPDATE items SET stock = MAX(0, stock + ?) WHERE id = ?
UpdateStockFloor(db, item_id, quantity) ==
    [db EXCEPT !.items =
        {IF r.id = item_id
         THEN [r EXCEPT !.stock = IF @ + quantity < 0 THEN 0 ELSE @ + quantity]
         ELSE r : r \in @}]

\* UPDATE items SET stock = stock + ? WHERE id = ?
UpdateStockStmt(db, item_id, quantity) ==
    [db EXCEPT !.items =
        {IF r.id = item_id THEN [r EXCEPT !.stock = @ + quantity] ELSE r : r \in @}]

\* trans_type = 'add' if quantity < 0 else 'remove'
trans_type_inverted(quantity) == IF quantity < 0 THEN "add" ELSE "remove"

\* trans_type = 'add' if quantity > 0 else 'remove'
trans_type_of(quantity) == IF quantity > 0 THEN "add" ELSE "remove"

\* the INSERT with quantity in place of abs(quantity)
InsertTransSigned(db, item_id, date, quantity, user) ==
    [db EXCEPT
        !.transactions = @ \cup {[trans_id |-> db.seq_transactions + 1,
                                  item_id |-> item_id,
                                  trans_date |-> isoformat(date),
                                  quantity |-> quantity,
                                  trans_type |-> IF quantity > 0 THEN "add" ELSE "remove",
                                  user |-> user]},
        !.seq_transactions = @ + 1]

\* INSERT INTO transactions (item_id, trans_date, quantity, trans_type, user)
\*   VALUES (item_id, date.today(), abs(quantity), trans_type, user)
InsertTransStmt(db, item_id, date, quantity, user) ==
    [db EXCEPT
        !.transactions = @ \cup {[trans_id |-> db.seq_transactions + 1,
                                  item_id |-> item_id,
                                  trans_date |-> isoformat(date),
                                  quantity |-> abs(quantity),
                                  trans_type |-> trans_type_of(quantity),
                                  user |-> user]},
        !.seq_transactions = @ + 1]

\* update_stock up to its conn.commit()
update_stock(db, item_id, quantity, user, date) ==
    InsertTransStmt(UpdateStockStmt(db, item_id, quantity), item_id, date, quantity, user)

RECURSIVE SumQuantity(_)
\* SUM(quantity) over a set of transactions rows
SumQuantity(rows) ==
    IF rows = {} THEN 0
    ELSE LET r == CHOOSE x \in rows : TRUE IN r.quantity + SumQuantity(rows \ {r})

\* SELECT SUM(quantity) FROM transactions WHERE trans_type = 'remove'
\*   AND strftime('%m', trans_date) = ? AND strftime('%Y', trans_date) = ?; ... or 0
get_monthly_usage(db, month, year) ==
    SumQuantity({r \in db.transactions :
        /\ r.trans_type = "remove"
        /\ strftime_m(r.trans_date) = FormatMonth(month)
        /\ strftime_Y(r.trans_date) = FormatYear(year)})

\* ... WHERE stock <= low_stock_threshold
get_low_stock_items_le(db) == {r \in db.items : r.stock <= r.low_stock_threshold}

\* SELECT id, name, stock, low_stock_threshold FROM items WHERE stock < low_stock_threshold
get_low_stock_items(db) == {r \in db.items : r.stock < r.low_stock_threshold}

\* the handler without its lookup
ItemFoundAlways(db, item_id) == TRUE

\* SELECT name, stock FROM items WHERE id = ?; if item:
ItemFound(db, item_id) == \E r \in db.items : r.id = item_id

\* st.number_input(..., min_value=m, step=1): the widget yields no value below m
number_input(min_value, typed) == {q \in typed : q >= min_value}

\* quantity = st.number_input(f"Quantity to {action}", step=1)
StockQuantityInputNoMin == TypedQuantities

\* quantity = st.number_input(f"Quantity to {action}", min_value=1, step=1)
StockQuantityInput == number_input(1, TypedQuantities)

\* qty = quantity if action == "Add" else -quantity
SignedQuantity(action, quantity) == IF action = "Add" THEN quantity ELSE -quantity

----------------------------------------------------------------------------
\* Page output.

Shown(op, msg, user, item_id, usage, low) ==
    [op |-> op, msg |-> msg, user |-> user, item_id |-> item_id, usage |-> usage,
     low |-> low]

NoOutput == Shown("", "", "", 0, 0, {})

LoggedOut == [logged_in |-> FALSE, user |-> ""]

NoArg == [item_id |-> 0, quantity |-> 0, user |-> "", seen |-> 0]

Init ==
    /\ conn = EmptyDB
    /\ disk = EmptyDB
    /\ today = StartDate
    /\ session = LoggedOut
    /\ output = NoOutput
    /\ calls = <<>>
    /\ created = <<>>
    /\ registered = [u \in {} |-> ""]
    /\ pc = [s \in Sessions |-> "idle"]
    /\ arg = [s \in Sessions |-> NoArg]

----------------------------------------------------------------------------
\* Handlers of one session (Spec).

\* Register tab: add_user(new_username, new_password)
Register(username, password) ==
    /\ ~session.logged_in
    /\ IF UsernameTaken(conn, username)
       THEN /\ output' = Shown("register", "Username already exists.", username, 0, 0, {})
            /\ UNCHANGED <<conn, disk, registered>>
       ELSE /\ conn' = InsertUser(conn, username, hash_password(password))
            /\ disk' = conn'
            /\ registered' = IF username \in DOMAIN registered THEN registered
                              ELSE (username :> password) @@ registered
            /\ output' = Shown("register", "User registered successfully! Please login.",
                               username, 0, 0, {})
    /\ UNCHANGED <<today, session, calls, created, pc, arg>>

\* Login tab: verify_user(username, password)
Login(username, password) ==
    /\ ~session.logged_in
    /\ IF verify_user(conn, username, password)
       THEN /\ session' = [logged_in |-> TRUE, user |-> username]
            /\ output' = Shown("login", "", username, 0, 0, {})
       ELSE /\ output' = Shown("login", "Invalid username or password.", username, 0, 0, {})
            /\ UNCHANGED session
    /\ UNCHANGED <<conn, disk, today, calls, created, registered, pc, arg>>

\* sidebar Logout button
Logout ==
    /\ session.logged_in
    /\ session' = LoggedOut
    /\ output' = Shown("logout", "", "", 0, 0, {})
    /\ UNCHANGED <<conn, disk, today, calls, created, registered, pc, arg>>

\* menu "Add New Item", button "Add Item": add_item(...)
AddNewItem(name, initial_stock, low_stock_threshold) ==
    /\ session.logged_in
    /\ IF name # ""
       THEN /\ conn.seq_items < MaxItems
            /\ conn' = InsertItem(conn, name, initial_stock, low_stock_threshold)
            /\ disk' = conn'
            /\ created' = Append(created, [initial_stock |-> initial_stock,
                                           low_stock_threshold |-> low_stock_threshold])
            /\ output' = Shown("add_item", "Item added", "", conn'.seq_items, 0, {})
       ELSE /\ output' = Shown("add_item", "Please enter an item name.", "", 0, 0, {})
            /\ UNCHANGED <<conn, disk, created>>
    /\ UNCHANGED <<today, session, calls, registered, pc, arg>>

\* menu "Add Stock" / "Remove Stock": scanned id, lookup, button "Confirm"
ConfirmStock(action, item_id, quantity) ==
    /\ session.logged_in
    /\ IF ItemFound(conn, item_id)
       THEN /\ Len(calls) < MaxCalls
            /\ conn' = update_stock(conn, item_id, SignedQuantity(action, quantity),
                                    session.user, today)
            /\ disk' = conn'
            /\ calls' = Append(calls, [item_id |-> item_id,
                                       quantity |-> SignedQuantity(action, quantity),
                                       user |-> session.user, date |-> today])
            /\ output' = Shown("stock", "Stock updated successfully!", "", item_id, 0, {})
       ELSE /\ output' = Shown("stock", "Item not found.", "", item_id, 0, {})
            /\ UNCHANGED <<conn, disk, calls>>
    /\ UNCHANGED <<today, session, created, registered, pc, arg>>

\* menu "Generate Report", button "Generate"
GenerateReport(month, year) ==
    /\ session.logged_in
    /\ output' = Shown("report", "", "", 0, get_monthly_usage(conn, month, year),
                       {r.id : r \in get_low_stock_items(conn)})
    /\ UNCHANGED <<conn, disk, today, session, calls, created, registered, pc, arg>>

\* menu "Reorder Reminders"
ReorderReminders ==
    /\ session.logged_in
    /\ output' = Shown("reminders",
                       IF get_low_stock_items(conn) = {} THEN "No low stock items."
                       ELSE "Reorder now!",
                       "", 0, 0, {r.id : r \in get_low_stock_items(conn)})
    /\ UNCHANGED <<conn, disk, today, session, calls, created, registered, pc, arg>>

\* midnight passes
NextDay ==
    /\ DaysSince(StartDate, today) < MaxDays
    /\ today' = Tomorrow(today)
    /\ UNCHANGED <<conn, disk, session, output, calls, created, registered, pc, arg>>

\* alice and bob have registered, one of them has logged in
InitLoggedIn ==
    /\ conn = InsertUser(InsertUser(EmptyDB, "alice", hash_password("pw1")),
                         "bob", hash_password("pw2"))
    /\ disk = conn
    /\ registered = ("alice" :> "pw1") @@ ("bob" :> "pw2")
    /\ \E u \in {"alice", "bob"} : session = [logged_in |-> TRUE, user |-> u]
    /\ today = StartDate
    /\ output = NoOutput
    /\ calls = <<>>
    /\ created = <<>>
    /\ pc = [s \in Sessions |-> "idle"]
    /\ arg = [s \in Sessions |-> NoArg]

NextAuth ==
    \/ \E u \in Usernames, p \in Passwords : Register(u, p)
    \/ \E u \in Usernames, p \in Passwords : Login(u, p)
    \/ Logout

\* the login / register page, from the empty database
SpecAuth == Init /\ [][NextAuth]_vars

Next ==
    \/ \E n \in Names, i \in InitialStocks, t \in Thresholds : AddNewItem(n, i, t)
    \/ \E a \in Actions, id \in ScanIds, q \in StockQuantityInput : ConfirmStock(a, id, q)
    \/ \E m \in QueryMonths, y \in QueryYears : GenerateReport(m, y)
    \/ ReorderReminders
    \/ NextDay

\* the pages of a logged-in session
Spec == InitLoggedIn /\ [][Next]_vars

----------------------------------------------------------------------------
\* update_stock statement by statement, two sessions on the one connection (SpecStmt).
\* Streamlit runs each session's script in its own thread; conn and cur are module
\* globals opened with check_same_thread=False, so the sessions share one implicit
\* transaction and any conn.commit() makes durable whatever is pending.

SessionUser(s) == IF s = "s1" THEN "alice" ELSE "bob"

StockOf(db, item_id) == (CHOOSE r \in db.items : r.id = item_id).stock

\* stock computed in Python from the value the handler read, then written back
SessionUpdateStale(db, a) ==
    [db EXCEPT !.items =
        {IF r.id = a.item_id THEN [r EXCEPT !.stock = a.seen + a.quantity] ELSE r : r \in @}]

\* cur.execute("UPDATE items SET stock = stock + ? WHERE id = ?", (quantity, item_id))
SessionUpdate(db, a) == UpdateStockStmt(db, a.item_id, a.quantity)

\* two items in stock, alice and bob logged in, one in each session
InitStmt ==
    /\ \E i1 \in InitialStocks, i2 \in InitialStocks, t \in Thresholds :
          /\ conn = InsertItem(InsertItem(
                        InsertUser(InsertUser(EmptyDB, "alice", hash_password("pw1")),
                                   "bob", hash_password("pw2")),
                        "Pen", i1, t), "Pen", i2, t)
          /\ created = <<[initial_stock |-> i1, low_stock_threshold |-> t],
                         [initial_stock |-> i2, low_stock_threshold |-> t]>>
    /\ disk = conn
    /\ registered = ("alice" :> "pw1") @@ ("bob" :> "pw2")
    /\ session = [logged_in |-> TRUE, user |-> "alice"]
    /\ today = StartDate
    /\ output = NoOutput
    /\ calls = <<>>
    /\ pc = [s \in Sessions |-> "idle"]
    /\ arg = [s \in Sessions |-> NoArg]

InFlight(s) == pc[s] \in {"update", "insert", "commit"}

\* the handler looked the scanned item up (the lookup answered this session's own
\* query), Confirm was pressed: update_stock is entered
BeginStock(s, action, item_id, quantity) ==
    /\ pc[s] = "idle"
    /\ ItemFound(conn, item_id)
    /\ arg' = [arg EXCEPT ![s] = [item_id |-> item_id,
                                   quantity |-> SignedQuantity(action, quantity),
                                   user |-> SessionUser(s),
                                   seen |-> StockOf(conn, item_id)]]
    /\ pc' = [pc EXCEPT ![s] = "update"]
    /\ UNCHANGED <<conn, disk, today, session, output, calls, created, registered>>

\* the UPDATE runs: pending on the connection
ExecUpdate(s) ==
    /\ pc[s] = "update"
    /\ conn' = SessionUpdate(conn, arg[s])
    /\ pc' = [pc EXCEPT ![s] = "insert"]
    /\ UNCHANGED <<disk, today, session, output, calls, created, registered, arg>>

\* the INSERT runs: pending on the connection
ExecInsert(s) ==
    /\ pc[s] = "insert"
    /\ conn' = InsertTransStmt(conn, arg[s].item_id, today, arg[s].quantity, arg[s].user)
    /\ pc' = [pc EXCEPT ![s] = "commit"]
    /\ UNCHANGED <<disk, today, session, output, calls, created, registered, arg>>

\* conn.commit(): everything pending on the connection becomes durable; the call returns
Commit(s) ==
    /\ pc[s] = "commit"
    /\ disk' = conn
    /\ pc' = [pc EXCEPT ![s] = "done"]
    /\ calls' = Append(calls, [item_id |-> arg[s].item_id, quantity |-> arg[s].quantity,
                               user |-> arg[s].user, date |-> today])
    /\ UNCHANGED <<conn, today, session, output, created, registered, arg>>

\* cur.execute raises (database locked, disk full, cursor in use by the other thread):
\* the statement has no effect, update_stock has no except or rollback, the exception
\* leaves it with the earlier statement still pending
ExecFails(s) ==
    /\ pc[s] \in {"update", "insert"}
    /\ pc' = [pc EXCEPT ![s] = "failed"]
    /\ UNCHANGED <<conn, disk, today, session, output, calls, created, registered, arg>>

\* add_user from the Register tab of a further session: INSERT, conn.commit()
OtherRegisters(username, password) ==
    /\ ~UsernameTaken(conn, username)
    /\ conn' = InsertUser(conn, username, hash_password(password))
    /\ disk' = conn'
    /\ registered' = (username :> password) @@ registered
    /\ UNCHANGED <<today, session, output, calls, created, pc, arg>>

\* the process dies and restarts: the pending transaction is rolled back
Crash ==
    /\ \E s \in Sessions : InFlight(s)
    /\ conn' = disk
    /\ pc' = [s \in Sessions |-> IF InFlight(s) THEN "failed" ELSE pc[s]]
    /\ UNCHANGED <<disk, today, session, output, calls, created, registered, arg>>

NextStmt ==
    \/ \E s \in Sessions, a \in Actions, id \in {1, 2}, q \in StockQuantityInput :
          BeginStock(s, a, id, q)
    \/ \E s \in Sessions : ExecUpdate(s)
    \/ \E s \in Sessions : ExecInsert(s)
    \/ \E s \in Sessions : Commit(s)
    \/ \E s \in Sessions : ExecFails(s)
    \/ OtherRegisters("carol", "pw1")
    \/ Crash

SpecStmt == InitStmt /\ [][NextStmt]_vars

----------------------------------------------------------------------------
\* Properties.

ItemIds(db) == {r.id : r \in db.items}

RECURSIVE SumCalls(_, _)
\* the sum of the signed quantities of the returned update_stock calls on item_id
SumCalls(cs, item_id) ==
    IF cs = <<>> THEN 0
    ELSE (IF Head(cs).item_id = item_id THEN Head(cs).quantity ELSE 0)
            + SumCalls(Tail(cs), item_id)

RECURSIVE NetLedger(_, _)
\* +quantity for each 'add' row and -quantity for each 'remove' row of item_id
NetLedger(rows, item_id) ==
    IF rows = {} THEN 0
    ELSE LET r == CHOOSE x \in rows : TRUE IN
         (IF r.item_id # item_id THEN 0
          ELSE IF r.trans_type = "add" THEN r.quantity ELSE -r.quantity)
            + NetLedger(rows \ {r}, item_id)

RECURSIVE RemovedIn(_, _, _)
\* the quantity the returned calls removed on a day of month/year
RemovedIn(cs, month, year) ==
    IF cs = <<>> THEN 0
    ELSE (IF Head(cs).quantity < 0 /\ Head(cs).date.month = month
                /\ Head(cs).date.year = year
          THEN -Head(cs).quantity ELSE 0)
            + RemovedIn(Tail(cs), month, year)

\* C1: every item's stock is the initial_stock given to add_item plus the sum of
\* the signed quantities of the update_stock calls made on it; it may be negative.
C1_StockIsInitialPlusCalls ==
    \A r \in conn.items :
        r.stock = created[r.id].initial_stock + SumCalls(calls, r.id)

\* an item driven below zero by two removals
C1_Witness ==
    \E r \in conn.items :
        /\ r.stock < 0
        /\ Len(calls) >= 2
        /\ \A i \in 1..Len(calls) : calls[i].item_id = r.id /\ calls[i].quantity < 0

\* C2 as stated: every item's stock is the net sum over the transactions rows
\* that reference it.
C2_StockIsLedgerSum ==
    \A r \in conn.items : r.stock = NetLedger(conn.transactions, r.id)

\* C2 amended: every item's stock is its initial_stock plus the net sum over the
\* transactions rows that reference it (add_item writes no transactions row).
C2_StockIsInitialPlusLedger ==
    \A r \in conn.items :
        r.stock = created[r.id].initial_stock + NetLedger(conn.transactions, r.id)

\* an item created with stock, then added to and removed from
C2_Witness ==
    \E r \in conn.items :
        /\ created[r.id].initial_stock > 0
        /\ \E x \in conn.transactions : x.item_id = r.id /\ x.trans_type = "add"
        /\ \E x \in conn.transactions : x.item_id = r.id /\ x.trans_type = "remove"

\* C3: whenever no update_stock call is in flight, the committed database holds
\* each call's stock update together with its transactions row or neither, so every
\* committed stock is the initial stock plus the net of the committed rows.
C3_AdjustIsAtomic ==
    (\A s \in Sessions : ~InFlight(s)) =>
        \A r \in disk.items :
            r.stock = created[r.id].initial_stock + NetLedger(disk.transactions, r.id)

\* C4: a stock adjustment for a scanned id that is no item's id reports
\* "Item not found.", adds no transactions row and changes no stock.
C4_UnknownItemRejected ==
    [][(output'.op = "stock" /\ output'.item_id \notin ItemIds(conn)) =>
          (output'.msg = "Item not found." /\ conn' = conn /\ disk' = disk)]_vars

\* an unknown id was scanned while the ledger and the stock were in use
C4_Witness ==
    /\ output.op = "stock"
    /\ output.msg = "Item not found."
    /\ output.item_id \notin ItemIds(conn)
    /\ conn.items # {}
    /\ conn.transactions # {}

\* C5: each update_stock call that returns adds exactly one transactions row, with
\* an unused trans_id, the call's item_id and user, quantity abs(signed quantity) and
\* trans_type by its sign; no step changes or removes an earlier row.
C5_OneEntryPerCall ==
    [][/\ conn.transactions \subseteq conn'.transactions
       /\ Len(calls') = Len(calls) => conn'.transactions = conn.transactions
       /\ Len(calls') = Len(calls) + 1 =>
             LET c == calls'[Len(calls')]
                 new == conn'.transactions \ conn.transactions
             IN /\ Cardinality(new) = 1
                /\ \A e \in new :
                      /\ e.trans_id \notin {x.trans_id : x \in conn.transactions}
                      /\ e.item_id = c.item_id
                      /\ e.user = c.user
                      /\ e.quantity = abs(c.quantity)
                      /\ c.quantity > 0 => e.trans_type = "add"
                      /\ c.quantity < 0 => e.trans_type = "remove"]_vars

\* a second adjustment has just been logged, after one of the other direction
C5_Witness ==
    /\ output.msg = "Stock updated successfully!"
    /\ Cardinality(conn.transactions) = 2
    /\ \E x, y \in conn.transactions : x.trans_type = "add" /\ y.trans_type = "remove"

\* C6: verify_user(u, p) is true exactly when u was registered and p hashes to the
\* hash stored by the first add_user(u, _) that returned True; add_user of a taken
\* username reports "Username already exists." and leaves the users table as it was.
C6_RegisterAndAuthenticate ==
    /\ [](\A u \in Usernames, p \in Passwords :
            verify_user(conn, u, p) <=>
                (u \in DOMAIN registered
                    /\ hash_password(p) = hash_password(registered[u])))
    /\ [][(output'.op = "register" /\ \E r \in conn.users : r.username = output'.user) =>
             (output'.msg = "Username already exists." /\ conn'.users = conn.users)]_vars

\* a second registration of a registered username was refused
C6_Witness ==
    /\ output.op = "register"
    /\ output.msg = "Username already exists."
    /\ output.user \in DOMAIN registered
    /\ verify_user(conn, output.user, registered[output.user])
    /\ \E p \in Passwords : ~verify_user(conn, output.user, p)

\* C7: once the update_stock calls of both sessions on one item have returned, the
\* item's stock is its prior stock plus both signed quantities and the ledger holds
\* one row for each call, on the connection and committed.
C7_NoLostUpdate ==
    (pc["s1"] = "done" /\ pc["s2"] = "done" /\ arg["s1"].item_id = arg["s2"].item_id) =>
        LET i == arg["s1"].item_id
            rows == {r \in conn.transactions : r.item_id = i}
        IN /\ StockOf(conn, i) =
                created[i].initial_stock + arg["s1"].quantity + arg["s2"].quantity
           /\ StockOf(disk, i) = StockOf(conn, i)
           /\ Cardinality(rows) = 2
           /\ rows \subseteq disk.transactions
           /\ \A s \in Sessions : \E r \in rows :
                 /\ r.user = arg[s].user
                 /\ r.quantity = abs(arg[s].quantity)
                 /\ r.trans_type = IF arg[s].quantity > 0 THEN "add" ELSE "remove"

\* both calls returned after both handlers had read the same stock
C7_Witness ==
    /\ pc["s1"] = "done" /\ pc["s2"] = "done"
    /\ arg["s1"].item_id = arg["s2"].item_id
    /\ arg["s1"].seen = arg["s2"].seen
    /\ arg["s1"].quantity + arg["s2"].quantity # 0

\* C8: get_monthly_usage(month, year) is the sum of quantity over the removals made
\* on a day of that month and year, on any item, and 0 when there is none.
C8_MonthlyUsage ==
    \A month \in 1..12, year \in QueryYears :
        get_monthly_usage(conn, month, year) = RemovedIn(calls, month, year)

\* two removals in December 2025, of 3 and of 4, give 7
C8_Witness ==
    /\ get_monthly_usage(conn, 12, 2025) = 7
    /\ Len(calls) = 2

C10_PositiveQuantity ==
    \A r \in conn.transactions : r.quantity > 0 /\ r.trans_type \in {"add", "remove"}

\* rows of both directions have been logged
C10_Witness ==
    /\ \E r \in conn.transactions : r.trans_type = "add"
    /\ \E r \in conn.transactions : r.trans_type = "remove"
    /\ output.msg = "Stock updated successfully!"

====
